---- MODULE Spec2Model ----
(***************************************************************************)
(* A model of nclandrei/ticketguru: the resolution-time resolver, the      *)
(* attachment classifiers, the series aggregators of package analyze and   *)
(* the chart aggregators of package plot.                                  *)
(*                                                                         *)
(* Timestamps are whole hours since an epoch, so a time difference in      *)
(* hours (time.Duration.Hours()) is an integer.  Texts and file names are  *)
(* sequences of one-character strings.                                     *)
(***************************************************************************)
EXTENDS Integers, Sequences, FiniteSets, TLC

VARIABLES
    issue,      \* resolver: the jira.Issue handed to timeToResolve
    ttr,        \* resolver: the value timeToResolve returned
    rpc,        \* resolver: "build" while the log grows, "done" once resolved
    filename,   \* classifier: the attachment file name
    kinds,      \* classifier: what the two classifiers returned
    tickets,    \* pipeline: the ticket population read from the database
    pc,         \* pipeline: "load", "analyzed" (package analyze ran), "timed"
    result,     \* pipeline: what the aggregator that ran last produced
    report,     \* detectors: the jira.Issue whose texts are being written
    found,      \* detectors: what the detectors and the word count returned
    calls,      \* scoring: per ticket, the state of its external scoring call
    stored      \* scoring: what boltDB.Insert wrote back

vars ==
    <<issue, ttr, rpc, filename, kinds, tickets, pc, result, report, found,
      calls, stored>>
resolverVars == <<issue, ttr, rpc>>
classifierVars == <<filename, kinds>>
pipelineVars == <<tickets, pc, result>>
detectorVars == <<report, found>>
scorerVars == <<calls, stored>>

(***************************************************************************)
(* Bounds of the model.                                                    *)
(***************************************************************************)
MaxHistories == 2
MaxItems == 3

(***************************************************************************)
(* jira.Issue: the parts the resolver reads.                               *)
(***************************************************************************)
Item(f, from, to) == [Field |-> f, FromString |-> from, ToString |-> to]

ItemKinds ==
    { Item("status", "Open", "Closed"),
      Item("status", "Open", "In Progress"),
      Item("status", "In Progress", "Closed"),
      Item("status", "Closed", "Open"),
      Item("resolution", "Open", "Closed") }

History(created, items) == [Created |-> created, Items |-> items]

CreatedStamps == {0, 1}
HistoryStamps == {0, 6}

\* The value timeToResolve returns when no item qualifies.
Unresolved == -1

\* calculateTimeDifference: t1.Sub(t2).Hours()
calculateTimeDifference(t1, t2) == t1 - t2

\* the test of the inner loop of timeToResolve
Qualifies(item) ==
    /\ item.Field = "status"
    /\ item.FromString = "Open"
    /\ item.ToString = "Closed"

\* the inner loop: does some item of the history qualify (front to back)
RECURSIVE ScanItems(_, _)
ScanItems(items, j) ==
    IF j > Len(items) THEN FALSE
    ELSE IF Qualifies(items[j]) THEN TRUE
    ELSE ScanItems(items, j + 1)

\* the outer loop run back to front: the last closing history would decide
RECURSIVE ScanHistoriesBackward(_, _)
ScanHistoriesBackward(i, k) ==
    LET hs == i.Changelog.Histories
        n == Len(hs) + 1 - k
    IN  IF k > Len(hs) THEN Unresolved
        ELSE IF ScanItems(hs[n].Items, 1)
             THEN calculateTimeDifference(hs[n].Created, i.Fields.Created)
        ELSE ScanHistoriesBackward(i, k + 1)

\* the outer loop: the first history holding a qualifying item decides
RECURSIVE ScanHistories(_, _)
ScanHistories(i, k) ==
    LET hs == i.Changelog.Histories
    IN  IF k > Len(hs) THEN Unresolved
        ELSE IF ScanItems(hs[k].Items, 1)
             THEN calculateTimeDifference(hs[k].Created, i.Fields.Created)
        ELSE ScanHistories(i, k + 1)

\* timeToResolve with the scan reversed: the last closing history decides
timeToResolveLast(i) == ScanHistoriesBackward(i, 1)

timeToResolve(i) == ScanHistories(i, 1)

\* isIssueHighPriority
isIssueHighPriority(i) ==
    i.Fields.Priority.ID = "1" \/ i.Fields.Priority.ID = "2"

(***************************************************************************)
(* The resolver's specification: a change log is built history by history  *)
(* and item by item, then timeToResolve is applied to it.                  *)
(***************************************************************************)
BareIssue(created, histories) ==
    [Fields |-> [Created |-> created], Changelog |-> [Histories |-> histories]]

IdleIssue == BareIssue(0, <<>>)

RECURSIVE CountItems(_, _)
CountItems(hs, k) ==
    IF k > Len(hs) THEN 0 ELSE Len(hs[k].Items) + CountItems(hs, k + 1)

ResolverIdle == issue = IdleIssue /\ ttr = 0 /\ rpc = "idle"
ClassifierIdle == filename = <<>> /\ kinds = [op |-> "idle"]
PipelineIdle == tickets = <<>> /\ pc = "idle" /\ result = [op |-> "none"]
DetectorIdle == report = [op |-> "idle"] /\ found = [op |-> "idle"]
ScorerIdle == calls = <<>> /\ stored = <<>>

InitResolve ==
    /\ \E c \in CreatedStamps : issue = BareIssue(c, <<>>)
    /\ ttr = 0
    /\ rpc = "build"
    /\ ClassifierIdle
    /\ PipelineIdle
    /\ DetectorIdle
    /\ ScorerIdle

\* the tracker records one more history (a change set) of the ticket
AddHistory ==
    /\ rpc = "build"
    /\ Len(issue.Changelog.Histories) < MaxHistories
    /\ \E s \in HistoryStamps :
          issue' = [issue EXCEPT !.Changelog.Histories = Append(@, History(s, <<>>))]
    /\ UNCHANGED <<ttr, rpc, classifierVars, pipelineVars, detectorVars, scorerVars>>

\* the newest history gets one more item
AddItem ==
    /\ rpc = "build"
    /\ Len(issue.Changelog.Histories) > 0
    /\ CountItems(issue.Changelog.Histories, 1) < MaxItems
    /\ \E it \in ItemKinds :
          issue' = [issue EXCEPT
                      !.Changelog.Histories[Len(issue.Changelog.Histories)].Items =
                          Append(@, it)]
    /\ UNCHANGED <<ttr, rpc, classifierVars, pipelineVars, detectorVars, scorerVars>>

\* timeToResolve(issue)
Resolve ==
    /\ rpc = "build"
    /\ ttr' = timeToResolve(issue)
    /\ rpc' = "done"
    /\ UNCHANGED <<issue, classifierVars, pipelineVars, detectorVars, scorerVars>>

NextResolve == AddHistory \/ AddItem \/ Resolve

SpecResolve == InitResolve /\ [][NextResolve]_vars

(***************************************************************************)
(* What the claims about the resolver speak of, stated from the log alone. *)
(***************************************************************************)
\* the positions of the histories that hold a status Open -> Closed item
ClosingHistories(i) ==
    { k \in 1..Len(i.Changelog.Histories) :
        \E j \in 1..Len(i.Changelog.Histories[k].Items) :
            LET it == i.Changelog.Histories[k].Items[j]
            IN  it.Field = "status" /\ it.FromString = "Open" /\ it.ToString = "Closed" }

HasClosing(i) == ClosingHistories(i) # {}

FirstClosing(i) ==
    CHOOSE k \in ClosingHistories(i) : \A m \in ClosingHistories(i) : k <= m

\* C1: the resolution time is a defined (non-sentinel) value if and only if
\* the change log holds a status Open -> Closed item; a direct Open -> Closed
\* item recorded 5 hours after creation yields 5.
C1_DefinedIffClosing ==
    rpc = "done" =>
        /\ (ttr # Unresolved) <=> HasClosing(issue)
        /\ (/\ Len(issue.Changelog.Histories) = 1
            /\ HasClosing(issue)
            /\ issue.Changelog.Histories[1].Created = issue.Fields.Created + 5)
           => ttr = 5

\* C2: when the log holds one or more status Open -> Closed items, the result
\* is the hours between creation and the first history, in stored order, that
\* holds such an item; later qualifying items never change it.
C2_FirstClosingWins ==
    (rpc = "done" /\ HasClosing(issue)) =>
        ttr = issue.Changelog.Histories[FirstClosing(issue)].Created
                - issue.Fields.Created

\* C2's case: closed, reopened and closed again, the later closing stamped
\* earlier than the first one, and the resolver has run
C2_Witness ==
    /\ rpc = "done"
    /\ Cardinality(ClosingHistories(issue)) >= 2
    /\ \E k \in ClosingHistories(issue) :
          /\ k > FirstClosing(issue)
          /\ issue.Changelog.Histories[k].Created
                < issue.Changelog.Histories[FirstClosing(issue)].Created
    /\ \E k \in 1..Len(issue.Changelog.Histories) :
          /\ k >= FirstClosing(issue)
          /\ \E j \in 1..Len(issue.Changelog.Histories[k].Items) :
                issue.Changelog.Histories[k].Items[j] = Item("status", "Closed", "Open")
    /\ ttr = 6 - issue.Fields.Created

(***************************************************************************)
(* The attachment classifiers.  A file name is a sequence of characters.   *)
(***************************************************************************)
MaxNameLen == 3

\* jira.AttachmentType: iota + 1
Image == 1
Text == 2
Code == 3
Video == 4

AttachmentTypes == {Image, Text, Code, Video}

\* strings.LastIndex(s, "."): the 0-based index of the last '.', or -1
RECURSIVE LastIndexDotFrom(_, _)
LastIndexDotFrom(s, k) ==
    IF k = 0 THEN -1
    ELSE IF s[k] = "." THEN k - 1
    ELSE LastIndexDotFrom(s, k - 1)

LastIndexDot(s) == LastIndexDotFrom(s, Len(s))

\* the Go slice expression s[lo:], which panics unless 0 <= lo <= len(s)
SliceFrom(s, lo) ==
    IF lo < 0 \/ lo > Len(s)
    THEN [ok |-> FALSE, str |-> <<>>]
    ELSE [ok |-> TRUE, str |-> SubSeq(s, lo + 1, Len(s))]

\* the switch both classifiers share: the extension compared as it is
SwitchExt(ext) ==
    CASE ext = <<"m", "d">> -> Text
      [] ext = <<"t", "x", "t">> -> Text
      [] ext = <<"p", "d", "f">> -> Text
      [] ext = <<"p", "n", "g">> -> Image
      [] ext = <<"j", "p", "g">> -> Image
      [] ext = <<"j", "p", "e", "g">> -> Image
      [] ext = <<"g", "i", "f">> -> Image
      [] ext = <<"b", "m", "p">> -> Image
      [] ext = <<"m", "p", "4">> -> Video
      [] ext = <<"a", "v", "i">> -> Video
      [] ext = <<"m", "k", "v">> -> Video
      [] OTHER -> Code

\* what a classifier call ends with: a category, or a run-time panic
Returned(t) == [ok |-> TRUE, type |-> t]
Panicked == [ok |-> FALSE, type |-> 0]

\* analyze.getAttachmentType
getAttachmentType(name) ==
    LET extIndex == LastIndexDot(name)
        ext == SliceFrom(name, extIndex + 1)
    IN  IF ext.ok THEN Returned(SwitchExt(ext.str)) ELSE Panicked

\* jira.GetAttachmentType: the slice starts at the '.' itself
GetAttachmentType(name) ==
    LET ext == SliceFrom(name, LastIndexDot(name))
    IN  IF ext.ok THEN Returned(SwitchExt(ext.str)) ELSE Panicked

\* the characters and the extensions file names are typed from
NameChars == {"s", "."}

NameExts ==
    { <<"m", "d">>, <<"t", "x", "t">>, <<"p", "d", "f">>, <<"p", "n", "g">>,
      <<"j", "p", "g">>, <<"j", "p", "e", "g">>, <<"g", "i", "f">>,
      <<"b", "m", "p">>, <<"m", "p", "4">>, <<"a", "v", "i">>, <<"m", "k", "v">>,
      <<"P", "N", "G">>, <<"J", "p", "g">>, <<"g", "o">> }

InitClassify ==
    /\ filename = <<>>
    /\ kinds = [op |-> "none"]
    /\ ResolverIdle
    /\ PipelineIdle
    /\ DetectorIdle
    /\ ScorerIdle

\* one more character of the file name
TypeChar ==
    /\ kinds.op = "none"
    /\ Len(filename) < MaxNameLen
    /\ \E c \in NameChars : filename' = Append(filename, c)
    /\ UNCHANGED <<kinds, resolverVars, pipelineVars, detectorVars, scorerVars>>

\* an extension typed in one go
TypeExt ==
    /\ kinds.op = "none"
    /\ Len(filename) < MaxNameLen
    /\ \E e \in NameExts : filename' = filename \o e
    /\ UNCHANGED <<kinds, resolverVars, pipelineVars, detectorVars, scorerVars>>

\* both classifiers applied to the file name
Classify ==
    /\ kinds.op = "none"
    /\ kinds' = [op |-> "classified",
                 analyze |-> getAttachmentType(filename),
                 jira |-> GetAttachmentType(filename)]
    /\ UNCHANGED <<filename, resolverVars, pipelineVars, detectorVars, scorerVars>>

NextClassify == TypeChar \/ TypeExt \/ Classify

SpecClassify == InitClassify /\ [][NextClassify]_vars

\* strings.ToLower on the characters file names are typed from
LowerChar(c) ==
    CASE c = "P" -> "p"
      [] c = "N" -> "n"
      [] c = "G" -> "g"
      [] c = "J" -> "j"
      [] OTHER -> c

LowerStr(s) == [k \in 1..Len(s) |-> LowerChar(s[k])]

\* the substring after the last '.' (the whole name when it has none)
AfterLastDot(s) ==
    IF \E k \in 1..Len(s) : s[k] = "."
    THEN LET d == CHOOSE k \in 1..Len(s) :
                     s[k] = "." /\ \A m \in (k + 1)..Len(s) : s[m] # "."
         IN  SubSeq(s, d + 1, Len(s))
    ELSE s

\* the category the documented rule gives a file name
CategoryByRule(s) ==
    LET e == LowerStr(AfterLastDot(s))
    IN  IF e \in {<<"m", "d">>, <<"t", "x", "t">>, <<"p", "d", "f">>} THEN Text
        ELSE IF e \in {<<"p", "n", "g">>, <<"j", "p", "g">>, <<"j", "p", "e", "g">>,
                       <<"g", "i", "f">>, <<"b", "m", "p">>} THEN Image
        ELSE IF e \in {<<"m", "p", "4">>, <<"a", "v", "i">>, <<"m", "k", "v">>} THEN Video
        ELSE Code

\* C9: classification is total: for every file name both classifiers return
\* one of the defined categories and never panic.
C9_ClassifiersTotal ==
    kinds.op = "classified" =>
        /\ kinds.analyze.ok /\ kinds.analyze.type \in AttachmentTypes
        /\ kinds.jira.ok /\ kinds.jira.type \in AttachmentTypes

\* C10: the category is the one the lower-cased substring after the last '.'
\* gives, so letter case never matters, and the two classifiers agree.  (A
\* file name on which jira.GetAttachmentType panics is C9's case and is left
\* out here.)
C10_CategoryByLowerCasedExtension ==
    kinds.op = "classified" =>
        /\ kinds.analyze.ok => kinds.analyze.type = CategoryByRule(filename)
        /\ kinds.jira.ok => kinds.jira.type = CategoryByRule(filename)
        /\ (kinds.analyze.ok /\ kinds.jira.ok) =>
              kinds.analyze.type = kinds.jira.type

(***************************************************************************)
(* Text metrics.  A text is a sequence of characters.                       *)
(***************************************************************************)
\* strings.Split(s, sep) for a one-character separator
RECURSIVE SplitOn(_, _, _, _)
SplitOn(s, sep, k, cur) ==
    IF k > Len(s) THEN <<cur>>
    ELSE IF s[k] = sep THEN <<cur>> \o SplitOn(s, sep, k + 1, <<>>)
    ELSE SplitOn(s, sep, k + 1, Append(cur, s[k]))

IsSpace(c) == c \in {" ", "\t", "\n", "\r"}

RECURSIVE TrimLeft(_)
TrimLeft(s) ==
    IF Len(s) > 0 /\ IsSpace(s[1]) THEN TrimLeft(Tail(s)) ELSE s

RECURSIVE TrimRight(_)
TrimRight(s) ==
    IF Len(s) > 0 /\ IsSpace(s[Len(s)]) THEN TrimRight(SubSeq(s, 1, Len(s) - 1)) ELSE s

\* strings.TrimSpace
TrimSpace(s) == TrimRight(TrimLeft(s))

RECURSIVE WordsOfLines(_, _)
WordsOfLines(lines, k) ==
    IF k > Len(lines) THEN 0
    ELSE Len(SplitOn(TrimSpace(lines[k]), " ", 1, <<>>)) + WordsOfLines(lines, k + 1)

\* analyze.calculateNumberOfWords (jira.CalculateNumberOfWords is the same code)
calculateNumberOfWords(s) == WordsOfLines(SplitOn(s, "\n", 1, <<>>), 1)

(***************************************************************************)
(* jira.Ticket: the issue's fields and the fields derived from them.       *)
(***************************************************************************)
MaxTickets == 2

Score(has, score) == [HasScore |-> has, Score |-> score]

Ticket(created, histories, prio, atts, desc, summ, comms, cwc, sdwc, steps, stack, sent, gram) ==
    [ Fields |-> [ Created |-> created,
                   Priority |-> [ID |-> prio],
                   Attachments |-> atts,
                   Description |-> desc,
                   Summary |-> summ,
                   Comments |-> [Comments |-> comms] ],
      Changelog |-> [Histories |-> histories],
      TimeToClose |-> 0,
      CommentWordsCount |-> cwc,
      SummaryDescWordsCount |-> sdwc,
      HasStepsToReproduce |-> steps,
      HasStackTrace |-> stack,
      Sentiment |-> sent,
      GrammarCorrectness |-> gram ]

\* change logs of a ticket created at hour 0
NoLog == <<>>
ClosedAfter(h) == <<History(h, <<Item("status", "Open", "Closed")>>)>>
ViaInProgress ==
    << History(0, <<Item("status", "Open", "In Progress")>>),
       History(5, <<Item("status", "In Progress", "Closed")>>) >>

\* a for-range loop over a slice (for _, issue := range issues): Op(acc,
\* element) applied front to back
RECURSIVE FoldSeq(_, _, _, _)
FoldSeq(Op(_, _), acc, s, k) ==
    IF k > Len(s) THEN acc ELSE FoldSeq(Op, Op(acc, s[k]), s, k + 1)

(***************************************************************************)
(* The series aggregators of package analyze.                              *)
(***************************************************************************)
RECURSIVE CommentWords(_, _)
CommentWords(comments, k) ==
    IF k > Len(comments) THEN 0
    ELSE calculateNumberOfWords(comments[k].Body) + CommentWords(comments, k + 1)

\* the body of WordinessAnalysis's loop
WordinessStep(acc, i, field) ==
    LET timeDiff == timeToResolve(i)
    IN  IF timeDiff > -1 /\ isIssueHighPriority(i)
        THEN [ wordCountSlice |->
                 CASE field = "description" ->
                          Append(acc.wordCountSlice,
                                 calculateNumberOfWords(i.Fields.Description))
                   [] field = "summary" ->
                          Append(acc.wordCountSlice,
                                 calculateNumberOfWords(i.Fields.Summary))
                   [] field = "comment" ->
                          Append(acc.wordCountSlice,
                                 CommentWords(i.Fields.Comments.Comments, 1))
                   [] OTHER -> acc.wordCountSlice,
               timeDiffs |-> Append(acc.timeDiffs, timeDiff) ]
        ELSE acc

WordinessAnalysis(issues, field) ==
    FoldSeq(LAMBDA acc, i : WordinessStep(acc, i, field),
            [wordCountSlice |-> <<>>, timeDiffs |-> <<>>], issues, 1)

\* the body of AttachmentsAnalysis's loop
AttachmentsAnalysisStep(acc, i) ==
    LET timeDiff == timeToResolve(i)
    IN  IF timeDiff > -1 /\ isIssueHighPriority(i)
        THEN IF Len(i.Fields.Attachments) > 0
             THEN [acc EXCEPT !.withAttchTimeDiffs = Append(@, timeDiff)]
             ELSE [acc EXCEPT !.withoutAttchTimeDiffs = Append(@, timeDiff)]
        ELSE acc

AttachmentsAnalysis(issues) ==
    FoldSeq(AttachmentsAnalysisStep,
            [withAttchTimeDiffs |-> <<>>, withoutAttchTimeDiffs |-> <<>>], issues, 1)

\* the body of SentimentScoreAnalysis's loop
SentimentScoreStep(acc, i) ==
    LET timeDiff == timeToResolve(i)
    IN  IF timeDiff > -1 /\ isIssueHighPriority(i) /\ i.Sentiment.HasScore
        THEN [ scores |-> Append(acc.scores, i.Sentiment.Score),
               timeDiffs |-> Append(acc.timeDiffs, timeDiff) ]
        ELSE acc

SentimentScoreAnalysis(issues) ==
    FoldSeq(SentimentScoreStep, [scores |-> <<>>, timeDiffs |-> <<>>], issues, 1)

(***************************************************************************)
(* float64 division, as the chart aggregators use it: x / float64(n).      *)
(* A finite quotient is kept as a reduced fraction; a zero divisor gives   *)
(* NaN (0/0) or an infinity, never a panic.                                *)
(***************************************************************************)
RECURSIVE Gcd(_, _)
Gcd(a, b) == IF b = 0 THEN a ELSE Gcd(b, a % b)

Abs(x) == IF x < 0 THEN -x ELSE x

Finite(num, den) ==
    LET g == Gcd(Abs(num), den)
    IN  [kind |-> "finite", num |-> num \div g, den |-> den \div g]

NaN == [kind |-> "NaN", num |-> 0, den |-> 0]
PosInf == [kind |-> "+Inf", num |-> 1, den |-> 0]
NegInf == [kind |-> "-Inf", num |-> -1, den |-> 0]

FloatDiv(x, n) ==
    IF n = 0
    THEN IF x = 0 THEN NaN ELSE IF x > 0 THEN PosInf ELSE NegInf
    ELSE Finite(x, n)

(***************************************************************************)
(* The chart aggregators of package plot.  Each hands a table (bar chart)  *)
(* or two series (scatter plot) to the renderer.                           *)
(***************************************************************************)
\* the resolution-time bound of the chart aggregators, in hours
MaxTimeToClose == 27000
\* the word-count bound of FieldsComplexity
MaxFieldWords == 1000

\* Ticket attachment types: jira.CodeAttachment, jira.ArchiveAttachment, ...;
\* "VideoAttachment" stands for any type the switch of Attachments does not
\* list (its default case)
TicketAttachmentTypes ==
    { "CodeAttachment", "ArchiveAttachment", "ImageAttachment", "ConfigAttachment",
      "TextAttachment", "SpreadsheetAttachment", "VideoAttachment" }

\* the label Attachments gives a type (its switch)
AttachmentLabel(k) ==
    CASE k = "CodeAttachment" -> "Code"
      [] k = "ArchiveAttachment" -> "Archive"
      [] k = "ImageAttachment" -> "Image"
      [] k = "ConfigAttachment" -> "Config"
      [] k = "TextAttachment" -> "Text"
      [] k = "SpreadsheetAttachment" -> "Spreadsheet"
      [] OTHER -> "Other"

\* a Go map[string]float64: nil until made; its entries as a set of pairs
NilMap == [nil |-> TRUE, entries |-> {}]

\* m[k] = v: a run-time panic on a nil map
MapStore(m, k, v) ==
    IF m.nil
    THEN [ok |-> FALSE, map |-> m]
    ELSE [ok |-> TRUE,
          map |-> [m EXCEPT !.entries =
                      {e \in @ : e[1] # k} \cup {<<k, v>>}]]

\* typeCountM[a.Type]++ ; typeTimeM[a.Type] += ticket.TimeToClose
AttachmentStep(acc, a, time) ==
    [acc EXCEPT !.typeCountM[a.Type] = @ + 1,
                !.typeTimeM[a.Type] = @ + time]

\* the body of Attachments's loop over the tickets
AttachmentsStep(acc, t) ==
    IF t.TimeToClose <= 0 \/ t.TimeToClose > MaxTimeToClose
    THEN acc
    ELSE IF Len(t.Fields.Attachments) = 0
         THEN [acc EXCEPT !.withoutCount = @ + 1,
                          !.withoutTime = @ + t.TimeToClose]
         ELSE FoldSeq(LAMBDA a2, a : AttachmentStep(a2, a, t.TimeToClose),
                      acc, t.Fields.Attachments, 1)

\* the loop over typeCountM: one bar per type that was counted
RECURSIVE StoreTypes(_, _, _)
StoreTypes(st, keys, acc) ==
    IF keys = {} \/ ~acc.ok THEN acc
    ELSE LET k == CHOOSE x \in keys : TRUE
         IN  StoreTypes(st, keys \ {k},
                        MapStore(acc.map, AttachmentLabel(k),
                                 FloatDiv(st.typeTimeM[k], st.typeCountM[k])))

\* plot.Attachments: result is declared and never made, so the first store
\* into it panics
Attachments(ts) ==
    LET st == FoldSeq(AttachmentsStep,
                      [ withoutCount |-> 0, withoutTime |-> 0,
                        typeCountM |-> [k \in TicketAttachmentTypes |-> 0],
                        typeTimeM |-> [k \in TicketAttachmentTypes |-> 0] ],
                      ts, 1)
        first == MapStore(NilMap, "Without Attachments",
                          FloatDiv(st.withoutTime, st.withoutCount))
        last == StoreTypes(st, {k \in TicketAttachmentTypes : st.typeCountM[k] > 0},
                           first)
    IN  [panicked |-> ~last.ok, bars |-> last.map.entries]

\* the body of StepsToReproduce's and of Stacktraces's loop
PresenceStep(acc, t, has) ==
    IF t.TimeToClose <= 0 \/ t.TimeToClose > MaxTimeToClose
    THEN acc
    ELSE IF has
         THEN [acc EXCEPT !.withCount = @ + 1, !.withSum = @ + t.TimeToClose]
         ELSE [acc EXCEPT !.withoutSum = @ + t.TimeToClose]

PresenceStart == [withCount |-> 0, withSum |-> 0, withoutSum |-> 0]

\* the two bars: the "without" mean is divided by len(tickets) - withCount
PresenceBars(st, n, withLabel, withoutLabel) ==
    [ panicked |-> FALSE,
      bars |-> { <<withLabel, FloatDiv(st.withSum, st.withCount)>>,
                 <<withoutLabel, FloatDiv(st.withoutSum, n - st.withCount)>> } ]

\* plot.StepsToReproduce
StepsToReproduce(ts) ==
    PresenceBars(FoldSeq(LAMBDA acc, t : PresenceStep(acc, t, t.HasStepsToReproduce),
                         PresenceStart, ts, 1),
                 Len(ts), "With Steps to Reproduce", "Without Steps to Reproduce")

\* plot.Stacktraces
Stacktraces(ts) ==
    PresenceBars(FoldSeq(LAMBDA acc, t : PresenceStep(acc, t, t.HasStackTrace),
                         PresenceStart, ts, 1),
                 Len(ts), "With Stack Traces", "Without Stack Traces")

NoSeries == [xs |-> <<>>, times |-> <<>>]

Plotted(acc, x, time) == [xs |-> Append(acc.xs, x), times |-> Append(acc.times, time)]

\* plot.CommentsComplexity
CommentsComplexityStep(acc, t) ==
    IF /\ t.TimeToClose > 0
       /\ t.TimeToClose < MaxTimeToClose
       /\ t.CommentWordsCount > 0
    THEN Plotted(acc, t.CommentWordsCount, t.TimeToClose)
    ELSE acc

CommentsComplexity(ts) == FoldSeq(CommentsComplexityStep, NoSeries, ts, 1)

\* plot.FieldsComplexity
FieldsComplexityStep(acc, t) ==
    IF /\ t.TimeToClose > 0
       /\ t.TimeToClose <= MaxTimeToClose
       /\ t.SummaryDescWordsCount > 0
       /\ t.SummaryDescWordsCount < MaxFieldWords
    THEN Plotted(acc, t.SummaryDescWordsCount, t.TimeToClose)
    ELSE acc

FieldsComplexity(ts) == FoldSeq(FieldsComplexityStep, NoSeries, ts, 1)

\* GrammarCorrectness's loop body without the HasScore test: a ticket without
\* a score would be plotted with the value its Score field holds
GrammarCorrectnessStepNoFlag(acc, t) ==
    IF /\ t.TimeToClose > 0
       /\ t.TimeToClose <= MaxTimeToClose
    THEN Plotted(acc, t.GrammarCorrectness.Score, t.TimeToClose)
    ELSE acc

\* plot.GrammarCorrectness
GrammarCorrectnessStep(acc, t) ==
    IF /\ t.TimeToClose > 0
       /\ t.TimeToClose <= MaxTimeToClose
       /\ t.GrammarCorrectness.HasScore
    THEN Plotted(acc, t.GrammarCorrectness.Score, t.TimeToClose)
    ELSE acc

GrammarCorrectness(ts) == FoldSeq(GrammarCorrectnessStep, NoSeries, ts, 1)

\* plot.SentimentAnalysis
SentimentAnalysisStep(acc, t) ==
    IF /\ t.TimeToClose > 0
       /\ t.TimeToClose <= MaxTimeToClose
       /\ t.Sentiment.HasScore
    THEN Plotted(acc, t.Sentiment.Score, t.TimeToClose)
    ELSE acc

SentimentAnalysis(ts) == FoldSeq(SentimentAnalysisStep, NoSeries, ts, 1)

(***************************************************************************)
(* The pipeline: the tickets are read from the database, the derived       *)
(* resolution time is attached to each, and the aggregators run.           *)
(***************************************************************************)
InitPipeline ==
    /\ tickets = <<>>
    /\ pc = "load"
    /\ result = [op |-> "none"]
    /\ ResolverIdle
    /\ ClassifierIdle
    /\ DetectorIdle
    /\ ScorerIdle

\* boltDB.Tickets(): one more ticket of the stored population
Ingest(universe) ==
    /\ pc = "load"
    /\ Len(tickets) < MaxTickets
    /\ \E t \in universe : tickets' = Append(tickets, t)
    /\ UNCHANGED <<pc, result, resolverVars, classifierVars, detectorVars, scorerVars>>

\* analyze.TimesToClose, the first analysis function main runs: every ticket
\* gets its TimeToClose, the resolver's value for its change log
TimesToClose ==
    /\ pc = "load"
    /\ tickets' = [k \in 1..Len(tickets) |->
                      [tickets[k] EXCEPT !.TimeToClose = timeToResolve(tickets[k])]]
    /\ pc' = "timed"
    /\ UNCHANGED <<result, resolverVars, classifierVars, detectorVars, scorerVars>>

\* a series aggregator of package analyze runs on the issues as read
RunAnalysis(r) ==
    /\ pc \in {"load", "analyzed"}
    /\ pc' = "analyzed"
    /\ result' = r
    /\ UNCHANGED <<tickets, resolverVars, classifierVars, detectorVars, scorerVars>>

\* a chart aggregator of package plot runs on the tickets with derived fields
RunPlot(r) ==
    /\ pc = "timed"
    /\ result' = r
    /\ UNCHANGED <<tickets, pc, resolverVars, classifierVars, detectorVars, scorerVars>>

\* the field selectors a caller may pass to WordinessAnalysis
FieldSelectors == {"description", "summary", "comment", "title"}

RunWordinessAnalysis ==
    \E field \in FieldSelectors :
        RunAnalysis([op |-> "WordinessAnalysis", field |-> field,
                     out |-> WordinessAnalysis(tickets, field)])

RunAttachmentsAnalysis ==
    RunAnalysis([op |-> "AttachmentsAnalysis", out |-> AttachmentsAnalysis(tickets)])

RunSentimentScoreAnalysis ==
    RunAnalysis([op |-> "SentimentScoreAnalysis",
                 out |-> SentimentScoreAnalysis(tickets)])

RunAttachments == RunPlot([op |-> "Attachments", out |-> Attachments(tickets)])

RunStepsToReproduce ==
    RunPlot([op |-> "StepsToReproduce", out |-> StepsToReproduce(tickets)])

RunStacktraces == RunPlot([op |-> "Stacktraces", out |-> Stacktraces(tickets)])

RunCommentsComplexity ==
    RunPlot([op |-> "CommentsComplexity", out |-> CommentsComplexity(tickets)])

RunFieldsComplexity ==
    RunPlot([op |-> "FieldsComplexity", out |-> FieldsComplexity(tickets)])

RunGrammarCorrectness ==
    RunPlot([op |-> "GrammarCorrectness", out |-> GrammarCorrectness(tickets)])

RunSentimentAnalysis ==
    RunPlot([op |-> "SentimentAnalysis", out |-> SentimentAnalysis(tickets)])

NoScore == Score(FALSE, 0)
Attachment(type) == [Type |-> type]
Comment(body) == [Body |-> body]

\* the populations of the wordiness analyses: texts and word counts vary
SeriesUniverse ==
    { Ticket(0, log, prio, atts, desc, <<"a">>, comms, cwc, sdwc,
             FALSE, FALSE, NoScore, NoScore) :
        log \in {NoLog, ClosedAfter(5)},
        prio \in {"1", "3"},
        atts \in {<<>>, <<Attachment("ImageAttachment")>>},
        desc \in {<<"a">>, <<"a", " ", "b">>},
        comms \in {<<>>, <<Comment(<<"c", " ", "d", " ", "e">>)>>},
        cwc \in {0, 3},
        sdwc \in {3, 1000} }

\* the populations of the bar charts: attachments and detected patterns vary
BarsUniverse ==
    { Ticket(0, log, prio, atts, <<>>, <<>>, <<>>, 0, 0, steps, stack,
             NoScore, NoScore) :
        log \in {NoLog, ClosedAfter(5), ClosedAfter(10), ClosedAfter(27001)},
        prio \in {"1", "3"},
        atts \in { <<>>,
                   <<Attachment("ImageAttachment")>>,
                   <<Attachment("ImageAttachment"), Attachment("ImageAttachment"),
                     Attachment("TextAttachment")>> },
        steps \in BOOLEAN,
        stack \in BOOLEAN }

\* the populations of the score correlations: the scores vary
ScoresUniverse ==
    { Ticket(0, log, prio, <<>>, <<>>, <<>>, <<>>, 0, 0, FALSE, FALSE,
             sent, gram) :
        log \in {NoLog, ViaInProgress, ClosedAfter(0), ClosedAfter(5),
                 ClosedAfter(27001)},
        prio \in {"1", "2", "3"},
        sent \in {Score(FALSE, 0), Score(FALSE, 7), Score(TRUE, 3)},
        gram \in {Score(FALSE, 9), Score(TRUE, 4)} }

NextSeries ==
    \/ Ingest(SeriesUniverse)
    \/ RunWordinessAnalysis
    \/ RunAttachmentsAnalysis
    \/ TimesToClose
    \/ RunCommentsComplexity
    \/ RunFieldsComplexity

SpecSeries == InitPipeline /\ [][NextSeries]_vars

NextBars ==
    \/ Ingest(BarsUniverse)
    \/ TimesToClose
    \/ RunAttachments
    \/ RunStepsToReproduce
    \/ RunStacktraces

SpecBars == InitPipeline /\ [][NextBars]_vars

NextScores ==
    \/ Ingest(ScoresUniverse)
    \/ RunSentimentScoreAnalysis
    \/ TimesToClose
    \/ RunGrammarCorrectness
    \/ RunSentimentAnalysis

SpecScores == InitPipeline /\ [][NextScores]_vars

(***************************************************************************)
(* What the claims about the aggregators speak of, stated from the         *)
(* population alone.                                                       *)
(***************************************************************************)
\* the positions of a population, in order, that satisfy P
PositionsWhere(ts, P(_)) ==
    SelectSeq([k \in 1..Len(ts) |-> k], LAMBDA k : P(ts[k]))

\* the positions of a set, in order
PositionsIn(ts, S) == SelectSeq([k \in 1..Len(ts) |-> k], LAMBDA k : k \in S)

\* the values F gives the tickets at the positions idx
ValuesAt(ts, idx, F(_)) == [n \in 1..Len(idx) |-> F(ts[idx[n]])]

\* the population without the tickets that do not satisfy P
Only(ts, P(_)) == SelectSeq(ts, P)

TimeToCloseOf(t) == t.TimeToClose
InChartBounds(t) == t.TimeToClose > 0 /\ t.TimeToClose <= MaxTimeToClose

RECURSIVE SumTimes(_, _)
SumTimes(ts, S) ==
    IF S = {} THEN 0
    ELSE LET k == CHOOSE x \in S : TRUE
         IN  ts[k].TimeToClose + SumTimes(ts, S \ {k})

Undefined == [kind |-> "undefined", num |-> 0, den |-> 0]

\* the mean resolution time of the tickets at the positions S
MeanTime(ts, S) ==
    IF S = {} THEN Undefined ELSE Finite(SumTimes(ts, S), Cardinality(S))

\* what the aggregator that ran would produce from the population ts
Rerun(ts) ==
    CASE result.op = "WordinessAnalysis" -> WordinessAnalysis(ts, result.field)
      [] result.op = "AttachmentsAnalysis" -> AttachmentsAnalysis(ts)
      [] result.op = "SentimentScoreAnalysis" -> SentimentScoreAnalysis(ts)
      [] result.op = "Attachments" -> Attachments(ts)
      [] result.op = "StepsToReproduce" -> StepsToReproduce(ts)
      [] result.op = "Stacktraces" -> Stacktraces(ts)
      [] result.op = "CommentsComplexity" -> CommentsComplexity(ts)
      [] result.op = "FieldsComplexity" -> FieldsComplexity(ts)
      [] result.op = "GrammarCorrectness" -> GrammarCorrectness(ts)
      [] result.op = "SentimentAnalysis" -> SentimentAnalysis(ts)

\* C3: a ticket without a status Open -> Closed event contributes to no
\* output of any aggregation: no element of a series, no sum and no count of
\* a per-category mean; every output is what the population without such
\* tickets gives.
C3_UnresolvedContributeNothing ==
    result.op # "none" => result.out = Rerun(Only(tickets, HasClosing))

\* C4: a ticket whose priority ID is neither "1" nor "2" is excluded from the
\* output of every aggregation: every output is what the population of the
\* high-priority tickets alone gives.
C4_LowPriorityExcluded ==
    result.op # "none" => result.out = Rerun(Only(tickets, isIssueHighPriority))

\* the metric WordinessAnalysis is asked for
WordinessMetric(t, field) ==
    CASE field = "description" -> calculateNumberOfWords(t.Fields.Description)
      [] field = "summary" -> calculateNumberOfWords(t.Fields.Summary)
      [] field = "comment" -> CommentWords(t.Fields.Comments.Comments, 1)
      [] OTHER -> 0

\* two series are aligned: some tickets, in order, gave both the metric at n
\* (where the selector names one) and the resolution time at n
Aligned(xs, ys, Metric(_), Time(_), known) ==
    /\ Len(xs) = Len(ys)
    /\ \E S \in SUBSET (1..Len(tickets)) :
          LET idx == PositionsIn(tickets, S)
          IN  /\ Len(xs) = Len(idx)
              /\ \A n \in 1..Len(idx) :
                    /\ ys[n] = Time(tickets[idx[n]])
                    /\ known => xs[n] = Metric(tickets[idx[n]])

\* C5: for every field selector, the two sequences a correlation aggregator
\* returns have the same length, and the metric at n and the resolution time
\* at n come from the same ticket.
C5_SeriesAligned ==
    /\ result.op = "WordinessAnalysis" =>
          Aligned(result.out.wordCountSlice, result.out.timeDiffs,
                  LAMBDA t : WordinessMetric(t, result.field), timeToResolve,
                  result.field \in {"description", "summary", "comment"})
    /\ result.op = "CommentsComplexity" =>
          Aligned(result.out.xs, result.out.times,
                  LAMBDA t : t.CommentWordsCount, TimeToCloseOf, TRUE)
    /\ result.op = "FieldsComplexity" =>
          Aligned(result.out.xs, result.out.times,
                  LAMBDA t : t.SummaryDescWordsCount, TimeToCloseOf, TRUE)

\* the tickets a presence chart averages for a bar
Charted(ts, has, Has(_)) ==
    {k \in 1..Len(ts) : InChartBounds(ts[k]) /\ Has(ts[k]) = has}

BarOf(bars, label) == {b \in bars : b[1] = label}

\* a bar of a category nobody is in reads "undefined"; no bar is NaN or infinite
BarGuarded(bars, label, S) ==
    \A b \in BarOf(bars, label) :
        /\ b[2].kind \in {"finite", "undefined"}
        /\ S = {} => b[2] = Undefined

\* C6: Attachments, StepsToReproduce and Stacktraces report the mean of a
\* zero-count category as an explicit "undefined" value: never a division by
\* a zero count, never zero, NaN or an infinity, and no crash.
C6_EmptyCategoryUndefined ==
    /\ result.op \in {"Attachments", "StepsToReproduce", "Stacktraces"} =>
          ~result.out.panicked
    /\ result.op = "StepsToReproduce" =>
          /\ BarGuarded(result.out.bars, "With Steps to Reproduce",
                        Charted(tickets, TRUE, LAMBDA t : t.HasStepsToReproduce))
          /\ BarGuarded(result.out.bars, "Without Steps to Reproduce",
                        Charted(tickets, FALSE, LAMBDA t : t.HasStepsToReproduce))
    /\ result.op = "Stacktraces" =>
          /\ BarGuarded(result.out.bars, "With Stack Traces",
                        Charted(tickets, TRUE, LAMBDA t : t.HasStackTrace))
          /\ BarGuarded(result.out.bars, "Without Stack Traces",
                        Charted(tickets, FALSE, LAMBDA t : t.HasStackTrace))
    /\ result.op = "Attachments" =>
          BarGuarded(result.out.bars, "Without Attachments",
                     Charted(tickets, TRUE, LAMBDA t : Len(t.Fields.Attachments) = 0))

\* the charted tickets that carry an attachment of the type
Carrying(ts, type) ==
    {k \in 1..Len(ts) :
        /\ InChartBounds(ts[k])
        /\ \E a \in 1..Len(ts[k].Fields.Attachments) :
              ts[k].Fields.Attachments[a].Type = type}

\* C7: Attachments maps each category occurring among the eligible tickets
\* to the mean resolution time of the eligible tickets carrying an attachment
\* of that category (a ticket counted once per category), and "Without
\* Attachments" to the mean of the eligible tickets without attachment.
C7_AttachmentsTable ==
    result.op = "Attachments" =>
        LET without == Charted(tickets, TRUE, LAMBDA t : Len(t.Fields.Attachments) = 0)
        IN  /\ ~result.out.panicked
            /\ \A type \in TicketAttachmentTypes :
                  Carrying(tickets, type) # {} =>
                      <<AttachmentLabel(type), MeanTime(tickets, Carrying(tickets, type))>>
                          \in result.out.bars
            /\ without # {} =>
                  <<"Without Attachments", MeanTime(tickets, without)>>
                      \in result.out.bars

\* the score and the resolution time a score correlation reads off a ticket
ScoreRead(t) ==
    IF result.op = "GrammarCorrectness" THEN t.GrammarCorrectness ELSE t.Sentiment

TimeRead(t) ==
    IF result.op = "SentimentScoreAnalysis" THEN timeToResolve(t) ELSE t.TimeToClose

ScoreSeries ==
    IF result.op = "SentimentScoreAnalysis"
    THEN [xs |-> result.out.scores, times |-> result.out.timeDiffs]
    ELSE result.out

ScoreOps == {"SentimentScoreAnalysis", "GrammarCorrectness", "SentimentAnalysis"}

\* the two series are exactly what the tickets at the positions S give
SeriesOf(S) ==
    LET idx == PositionsIn(tickets, S)
    IN  /\ ScoreSeries.xs = ValuesAt(tickets, idx, LAMBDA t : ScoreRead(t).Score)
        /\ ScoreSeries.times = ValuesAt(tickets, idx, TimeRead)

\* the base filter: a defined resolution time and a high priority
PassesBaseFilter(t) == HasClosing(t) /\ isIssueHighPriority(t)

\* the eligibility test of the aggregator that ran
PassesOwnFilter(t) ==
    IF result.op = "SentimentScoreAnalysis"
    THEN timeToResolve(t) > -1 /\ isIssueHighPriority(t)
    ELSE t.TimeToClose > 0 /\ t.TimeToClose <= MaxTimeToClose

MaxBreaks == 3
MaxComments == 1

\* the regexp class \s
PerlSpace(c) == c \in {"\t", "\n", "\f", "\r", " "}

\* s[i..j-1] can be consumed by a repetition of `.` (or of [^\n])
Dots(s, i, j) == \A k \in i..(j - 1) : s[k] # "\n"

\* s[i..j-1] can be consumed by \s*
Spaces(s, i, j) == \A k \in i..(j - 1) : PerlSpace(s[k])

\* the literal lit stands in s from position i on
Lit(s, i, lit) ==
    /\ i >= 1
    /\ i + Len(lit) - 1 <= Len(s)
    /\ \A k \in 1..Len(lit) : s[i + k - 1] = lit[k]

ExceptionToken == <<"E", "x", "c", "e", "p", "t", "i", "o", "n">>
AtToken == <<"a", "t">>

\* one repetition of the group (\s*at.+\s*\n) consumes s[i..j-1]:
\* \s* is s[i..a-1], `at` is s[a..a+1], .+ is s[a+2..d-1], \s* is s[d..j-2]
AtGroup(s, i, j) ==
    /\ j - 1 <= Len(s)
    /\ j - 1 >= i
    /\ s[j - 1] = "\n"
    /\ \E a \in i..(j - 1) :
          /\ Spaces(s, i, a)
          /\ Lit(s, a, AtToken)
          /\ \E d \in (a + 3)..(j - 1) :
                /\ Dots(s, a + 2, d)
                /\ Spaces(s, d, j - 1)

\* containsRegex(s, `^.+Exception[^\n]+\n(\s*at.+\s*\n)+`): ^.+ is s[1..e-1],
\* Exception is s[e..e+8], [^\n]+ is s[e+9..n-1], \n is s[n]; a match exists
\* as soon as the trailing group can be repeated once
MatchStackTrace(s) ==
    \E e \in 2..Len(s) :
        /\ Dots(s, 1, e)
        /\ Lit(s, e, ExceptionToken)
        /\ \E n \in (e + 10)..Len(s) :
              /\ s[n] = "\n"
              /\ Dots(s, e + 9, n)
              /\ \E j \in (n + 2)..(Len(s) + 1) : AtGroup(s, n + 1, j)

\* one repetition of the group (\n(\s*)\*(.*)) consumes s[i..j-1]:
\* \n is s[i], \s* is s[i+1..b-1], \* is s[b], .* is s[b+1..j-1]
BulletGroup(s, i, j) ==
    /\ i >= 1
    /\ i <= Len(s)
    /\ s[i] = "\n"
    /\ \E b \in (i + 1)..(j - 1) :
          /\ Spaces(s, i + 1, b)
          /\ s[b] = "*"
          /\ Dots(s, b + 1, j)

\* containsRegex(s, `(\n(\s*)\*(.*)){2,}`): a match exists as soon as the
\* group can be repeated twice in a row
MatchSteps(s) ==
    \E i \in 1..Len(s) :
        \E j \in (i + 2)..Len(s) :
            /\ BulletGroup(s, i, j)
            /\ \E m \in (j + 2)..(Len(s) + 1) : BulletGroup(s, j, m)

\* some comment body from the k-th on matches
RECURSIVE AnyComment(_, _, _)
AnyComment(Match(_), comments, k) ==
    IF k > Len(comments) THEN FALSE
    ELSE IF Match(comments[k].Body) THEN TRUE
    ELSE AnyComment(Match, comments, k + 1)

\* analyze.HasStepsToReproduce; the pattern compiles, so the error is nil
HasStepsToReproduce(i) ==
    IF MatchSteps(i.Fields.Description) THEN TRUE
    ELSE AnyComment(MatchSteps, i.Fields.Comments.Comments, 1)

\* analyze.HasStackTrace; the pattern compiles, so the error is nil
HasStackTrace(i) ==
    IF MatchStackTrace(i.Fields.Description) THEN TRUE
    ELSE AnyComment(MatchStackTrace, i.Fields.Comments.Comments, 1)

(***************************************************************************)
(* The detectors' specification: the reporter writes the description and   *)
(* the comments of an issue line by line, then the detectors and the word  *)
(* count are applied to it.                                                *)
(***************************************************************************)
Chars(str) ==
    CASE str = "" -> <<>>
      [] str = "x" -> <<"x">>
      [] str = "x x" -> <<"x", " ", "x">>
      [] str = "x  x" -> <<"x", " ", " ", "x">>
      [] str = " " -> <<" ">>
      [] str = " x " -> <<" ", "x", " ">>
      [] str = "xExceptionx" -> <<"x">> \o ExceptionToken \o <<"x">>
      [] str = "xException" -> <<"x">> \o ExceptionToken
      [] str = " atx" -> <<" ">> \o AtToken \o <<"x">>
      [] str = "*x" -> <<"*", "x">>
      [] str = " *x" -> <<" ", "*", "x">>

\* what a line of a bug report may hold
ReportLines == {"x", "xExceptionx", "xException", " atx", "*x", " *x"}

\* what a line of a plain text may hold
ProseLines == {"x", "x x", "x  x", " ", " x "}

BlankIssue ==
    [op |-> "write",
     Fields |-> [Description |-> <<>>, Comments |-> [Comments |-> <<>>]]]

RECURSIVE CountBreaks(_, _)
CountBreaks(s, k) ==
    IF k > Len(s) THEN 0
    ELSE (IF s[k] = "\n" THEN 1 ELSE 0) + CountBreaks(s, k + 1)

RECURSIVE CommentBreaks(_, _)
CommentBreaks(comments, k) ==
    IF k > Len(comments) THEN 0
    ELSE CountBreaks(comments[k].Body, 1) + CommentBreaks(comments, k + 1)

\* the text being written: the newest comment, the description before any
CurrentText(i) ==
    IF Len(i.Fields.Comments.Comments) = 0 THEN i.Fields.Description
    ELSE i.Fields.Comments.Comments[Len(i.Fields.Comments.Comments)].Body

WithCurrentText(i, s) ==
    IF Len(i.Fields.Comments.Comments) = 0
    THEN [i EXCEPT !.Fields.Description = s]
    ELSE [i EXCEPT !.Fields.Comments.Comments[Len(i.Fields.Comments.Comments)].Body = s]

AtLineStart(s) == IF Len(s) = 0 THEN TRUE ELSE s[Len(s)] = "\n"

InitDetect ==
    /\ report = BlankIssue
    /\ found = [op |-> "none"]
    /\ ResolverIdle
    /\ ClassifierIdle
    /\ PipelineIdle
    /\ ScorerIdle

\* the reporter fills the line the text is at
WriteLine(alphabet) ==
    /\ found.op = "none"
    /\ AtLineStart(CurrentText(report))
    /\ \E l \in alphabet :
          report' = WithCurrentText(report, CurrentText(report) \o Chars(l))
    /\ UNCHANGED <<found, resolverVars, classifierVars, pipelineVars, scorerVars>>

\* the reporter ends the line
BreakLine ==
    /\ found.op = "none"
    /\ CountBreaks(report.Fields.Description, 1)
          + CommentBreaks(report.Fields.Comments.Comments, 1) < MaxBreaks
    /\ report' = WithCurrentText(report, Append(CurrentText(report), "\n"))
    /\ UNCHANGED <<found, resolverVars, classifierVars, pipelineVars, scorerVars>>

\* somebody starts a comment on the issue
AddComment ==
    /\ found.op = "none"
    /\ Len(report.Fields.Comments.Comments) < MaxComments
    /\ report' = [report EXCEPT !.Fields.Comments.Comments = Append(@, [Body |-> <<>>])]
    /\ UNCHANGED <<found, resolverVars, classifierVars, pipelineVars, scorerVars>>

\* HasStackTrace(issue), HasStepsToReproduce(issue) and the word count of the
\* description
Detect ==
    /\ found.op = "none"
    /\ found' = [op |-> "detected",
                 HasStackTrace |-> HasStackTrace(report),
                 HasStepsToReproduce |-> HasStepsToReproduce(report),
                 Words |-> calculateNumberOfWords(report.Fields.Description)]
    /\ UNCHANGED <<report, resolverVars, classifierVars, pipelineVars, scorerVars>>

NextDetect == WriteLine(ReportLines) \/ BreakLine \/ AddComment \/ Detect

SpecDetect == InitDetect /\ [][NextDetect]_vars

NextWords == WriteLine(ProseLines) \/ BreakLine \/ Detect

SpecWords == InitDetect /\ [][NextWords]_vars

(***************************************************************************)
(* What the claims about the detectors speak of, stated from the lines of  *)
(* the texts.                                                              *)
(***************************************************************************)
LinesOf(s) == SplitOn(s, "\n", 1, <<>>)

\* the description and the comment bodies of an issue
TextsOf(i) ==
    <<i.Fields.Description>> \o
        [k \in 1..Len(i.Fields.Comments.Comments) |-> i.Fields.Comments.Comments[k].Body]

ContainsToken(line, token) == \E k \in 1..Len(line) : Lit(line, k, token)

\* the line begins with optional whitespace and the marker
BeginsWith(line, marker) ==
    \E k \in 1..Len(line) :
        /\ \A m \in 1..(k - 1) : line[m] \in {" ", "\t"}
        /\ Lit(line, k, marker)

\* how many lines beginning with `at` follow in a row from line k on
RECURSIVE AtRun(_, _)
AtRun(lines, k) ==
    IF k > Len(lines) THEN 0
    ELSE IF BeginsWith(lines[k], AtToken) THEN 1 + AtRun(lines, k + 1)
    ELSE 0

ExceptionLines(s) ==
    {k \in 1..Len(LinesOf(s)) : ContainsToken(LinesOf(s)[k], ExceptionToken)}

\* C11: HasStackTrace is true when some text of the ticket holds, on any of
\* its lines, a line containing Exception directly followed by two or more
\* lines beginning with optional whitespace and `at`, and false when every
\* Exception line of every text is followed by one such line only.
C11_StackTraceNeedsTwoAtLines ==
    found.op = "detected" =>
        /\ (\E n \in 1..Len(TextsOf(report)) :
               \E k \in ExceptionLines(TextsOf(report)[n]) :
                   AtRun(LinesOf(TextsOf(report)[n]), k + 1) >= 2)
              => found.HasStackTrace
        /\ (\A n \in 1..Len(TextsOf(report)) :
               \A k \in ExceptionLines(TextsOf(report)[n]) :
                   AtRun(LinesOf(TextsOf(report)[n]), k + 1) = 1)
              => ~found.HasStackTrace

BulletToken == <<"*">>

\* two lines in a row of the text begin with optional indentation and `*`
TwoBulletLines(s) ==
    \E k \in 1..(Len(LinesOf(s)) - 1) :
        /\ BeginsWith(LinesOf(s)[k], BulletToken)
        /\ BeginsWith(LinesOf(s)[k + 1], BulletToken)

\* C12: HasStepsToReproduce is true when some text of the ticket holds two
\* or more consecutive bullet lines, the first line of the text included,
\* and false when no text of the ticket does.
C12_StepsNeedTwoConsecutiveBullets ==
    found.op = "detected" =>
        (found.HasStepsToReproduce <=>
            \E n \in 1..Len(TextsOf(report)) : TwoBulletLines(TextsOf(report)[n]))

\* the number of maximal runs of non-whitespace characters of a line
TokensOf(line) ==
    Cardinality({k \in 1..Len(line) :
                    /\ ~IsSpace(line[k])
                    /\ (k = 1 \/ IsSpace(line[k - 1]))})

RECURSIVE SumTokens(_, _)
SumTokens(lines, k) ==
    IF k > Len(lines) THEN 0 ELSE TokensOf(lines[k]) + SumTokens(lines, k + 1)

\* C13: the word count of a text is the sum over its lines of the number of
\* whitespace-delimited non-empty tokens of the line, so that blank lines and
\* extra spaces count for nothing and the empty text counts 0.
C13_WordCountSumsTokens ==
    found.op = "detected" =>
        found.Words = SumTokens(LinesOf(report.Fields.Description), 1)

(***************************************************************************)
(* What the claim about the presence charts speaks of.                     *)
(***************************************************************************)
\* the sum of the resolution times of the tickets at S over their number
SumOverCount(ts, S) == FloatDiv(SumTimes(ts, S), Cardinality(S))

\* the "with" bar alone is the quotient over the charted tickets that have
\* the feature
WithBarOverEligible ==
    /\ result.op = "StepsToReproduce" =>
          <<"With Steps to Reproduce",
            SumOverCount(tickets, Charted(tickets, TRUE, LAMBDA t : t.HasStepsToReproduce))>>
              \in result.out.bars
    /\ result.op = "Stacktraces" =>
          <<"With Stack Traces",
            SumOverCount(tickets, Charted(tickets, TRUE, LAMBDA t : t.HasStackTrace))>>
              \in result.out.bars

\* C15: StepsToReproduce (Stacktraces) reports as the "with" value the sum of
\* the resolution times of the tickets within the bounds that have the
\* feature over their number, and as the "without" value the sum of those
\* that lack it over their number; a ticket the bounds skip is in neither
\* denominator.
C15_PresenceMeansOverEligible ==
    /\ result.op = "StepsToReproduce" =>
          result.out.bars =
              { <<"With Steps to Reproduce",
                  SumOverCount(tickets,
                      Charted(tickets, TRUE, LAMBDA t : t.HasStepsToReproduce))>>,
                <<"Without Steps to Reproduce",
                  SumOverCount(tickets,
                      Charted(tickets, FALSE, LAMBDA t : t.HasStepsToReproduce))>> }
    /\ result.op = "Stacktraces" =>
          result.out.bars =
              { <<"With Stack Traces",
                  SumOverCount(tickets,
                      Charted(tickets, TRUE, LAMBDA t : t.HasStackTrace))>>,
                <<"Without Stack Traces",
                  SumOverCount(tickets,
                      Charted(tickets, FALSE, LAMBDA t : t.HasStackTrace))>> }

(***************************************************************************)
(* Scoring.  main reads the tickets, hands them to analyze.MultipleScores  *)
(* with the clients the -type flag selected, runs the analysis functions   *)
(* and writes the tickets back.  MultipleScores scores the tickets with a  *)
(* bounded pool of workers, one external call per ticket; a call returns a *)
(* score or fails.                                                         *)
(***************************************************************************)
MaxBatch == 5
MaxWorkers == 2

\* values of the -type flag: one with the grammar client, one with the
\* sentiment client, one with no client at all
AnalysisTypes == {"grammar", "sentiment", "all"}

\* the switch on analysisType: the clients handed to MultipleScores
ClientsOf(type) ==
    CASE type = "grammar" -> <<"GrammarCorrectness">>
      [] type = "sentiment" -> <<"Sentiment">>
      [] OTHER -> <<>>

\* the scores an external service may return
ScoreValues == {3, 7}

\* the populations of a scoring run: tickets closed after 5 hours, none of
\* which carries a score yet
ScoringUniverse ==
    { Ticket(0, ClosedAfter(5), "1", <<>>, <<"a">>, <<>>, <<>>, 0, 0, FALSE, FALSE,
             NoScore, NoScore) }

InitScoring ==
    /\ tickets = <<>>
    /\ pc = "load"
    /\ result = [op |-> "none"]
    /\ \E type \in AnalysisTypes : calls = [type |-> type, state |-> <<>>]
    /\ stored = <<>>
    /\ ResolverIdle
    /\ ClassifierIdle
    /\ DetectorIdle

\* boltDB.Tickets(): one more ticket of the stored population
LoadBatch ==
    /\ pc = "load"
    /\ Len(tickets) < MaxBatch
    /\ \E t \in ScoringUniverse : tickets' = Append(tickets, t)
    /\ UNCHANGED <<pc, result, calls, stored, resolverVars, classifierVars, detectorVars>>

\* main calls analyze.MultipleScores(tickets, clients...): with a client
\* every ticket awaits its call, without one there is nothing to call
BeginScoring ==
    /\ pc = "load"
    /\ pc' = "scoring"
    /\ calls' = [calls EXCEPT !.state =
                    [k \in 1..Len(tickets) |->
                        IF Len(ClientsOf(calls.type)) = 0
                        THEN [at |-> "skipped", value |-> 0]
                        ELSE [at |-> "pending", value |-> 0]]]
    /\ UNCHANGED <<tickets, result, stored, resolverVars, classifierVars, detectorVars>>

InFlight == {k \in 1..Len(calls.state) : calls.state[k].at = "inflight"}

\* a free worker takes a ticket and calls the external service for it
StartCall ==
    /\ pc = "scoring"
    /\ Cardinality(InFlight) < MaxWorkers
    /\ \E k \in 1..Len(calls.state) :
          /\ calls.state[k].at = "pending"
          /\ calls' = [calls EXCEPT !.state[k].at = "inflight"]
    /\ UNCHANGED <<tickets, pc, result, stored, resolverVars, classifierVars, detectorVars>>

\* the ticket after its call: a returned score is attached with its presence
\* flag, a failed call leaves the ticket as it was
Scored(t, client, outcome) ==
    IF outcome.at = "ok"
    THEN IF client = "Sentiment"
         THEN [t EXCEPT !.Sentiment = Score(TRUE, outcome.value)]
         ELSE [t EXCEPT !.GrammarCorrectness = Score(TRUE, outcome.value)]
    ELSE t

\* the external call of a ticket returns a score or fails
CallReturns ==
    /\ pc = "scoring"
    /\ \E k \in InFlight :
          \E outcome \in {[at |-> "failed", value |-> 0]}
                            \cup {[at |-> "ok", value |-> v] : v \in ScoreValues} :
              /\ calls' = [calls EXCEPT !.state[k] = outcome]
              /\ tickets' = [tickets EXCEPT
                               ![k] = Scored(@, ClientsOf(calls.type)[1], outcome)]
    /\ UNCHANGED <<pc, result, stored, resolverVars, classifierVars, detectorVars>>

\* every call has returned
BatchDone ==
    \A k \in 1..Len(calls.state) : calls.state[k].at \in {"ok", "failed", "skipped"}

\* MultipleScores returns to main, aborting the run when a call has failed
ScoringReturnsOrFatal ==
    /\ pc = "scoring"
    /\ BatchDone
    /\ pc' = IF \E k \in 1..Len(calls.state) : calls.state[k].at = "failed"
             THEN "scoring failed"
             ELSE "scored"
    /\ UNCHANGED <<tickets, result, calls, stored, resolverVars, classifierVars, detectorVars>>

\* MultipleScores returns to main; it hands back no error and main goes on
ScoringReturns ==
    /\ pc = "scoring"
    /\ BatchDone
    /\ pc' = "scored"
    /\ UNCHANGED <<tickets, result, calls, stored, resolverVars, classifierVars, detectorVars>>

\* for _, f := range analysisFuncs { f(tickets...) }: TimesToClose, always
\* the first of them, attaches the resolution time to every ticket
AnalysisFuncs ==
    /\ pc = "scored"
    /\ tickets' = [k \in 1..Len(tickets) |->
                      [tickets[k] EXCEPT !.TimeToClose = timeToResolve(tickets[k])]]
    /\ pc' = "analysed"
    /\ UNCHANGED <<result, calls, stored, resolverVars, classifierVars, detectorVars>>

\* boltDB.Insert(tickets...): the tickets are written back, or the database
\* reports an error and main ends with log.Fatalf
Insert ==
    /\ pc = "analysed"
    /\ \E err \in BOOLEAN :
          IF err
          THEN pc' = "insert failed" /\ stored' = stored
          ELSE pc' = "stored" /\ stored' = tickets
    /\ UNCHANGED <<tickets, result, calls, resolverVars, classifierVars, detectorVars>>

NextScoring ==
    \/ LoadBatch
    \/ BeginScoring
    \/ StartCall
    \/ CallReturns
    \/ ScoringReturns
    \/ AnalysisFuncs
    \/ Insert

\* a worker that can take a ticket does, a call returns or times out, and
\* main runs on
SpecScoring == InitScoring /\ [][NextScoring]_vars /\ WF_vars(NextScoring)

(***************************************************************************)
(* What the claim about scoring speaks of.                                 *)
(***************************************************************************)
\* the score field the run's client writes
ScoreField(t) ==
    IF calls.type = "sentiment" THEN t.Sentiment ELSE t.GrammarCorrectness

\* every ticket whose call returned a score carries the presence flag and
\* that score, every ticket whose call failed carries no presence flag
ScoredOneByOne ==
    \A k \in 1..Len(calls.state) :
        /\ calls.state[k].at = "ok" =>
              ScoreField(tickets[k]) = Score(TRUE, calls.state[k].value)
        /\ calls.state[k].at = "failed" => ~ScoreField(tickets[k]).HasScore

\* once the tickets are written back, they are the scored tickets with their
\* resolution times attached
WrittenBack ==
    pc = "stored" =>
        /\ BatchDone
        /\ Len(calls.state) = Len(tickets)
        /\ stored = tickets
        /\ \A k \in 1..Len(tickets) :
              tickets[k].TimeToClose = timeToResolve(tickets[k])

====
